---- MODULE Spec2Model ----
\* A model of blocky (src/blocky/blocky.py): a daemon that resolves a list of
\* domains, keeps an ipset and an iptables rule in step with the result, and
\* removes them when it is told to terminate.
EXTENDS Integers, Sequences, FiniteSets, TLC

\* ---------------------------------------------------------------- bounds

\* Addresses are 1..MaxAddr, ordered as their strings are; 0 is the empty string.
MaxAddr == 2
\* Longest stderr text (in words) a kernel-set command prints.
MaxStderr == 3
\* Longest domain list handed to the resolver.
MaxDomains == 2
\* Longest answer (in addresses) to one DNS query.
MaxAnswer == 2
\* Rules other programs have put in the chain before blocky starts.
MaxForeign == 1

Addr == 1..MaxAddr
EmptyStr == 0

\* ------------------------------------------------------------- utilities

RECURSIVE SeqsUpTo(_, _)
\* All sequences over S of length at most n.
SeqsUpTo(S, n) ==
    IF n = 0 THEN {<<>>}
    ELSE LET T == SeqsUpTo(S, n - 1)
         IN  T \cup {Append(t, x) : t \in {u \in T : Len(u) = n - 1}, x \in S}

Range(s) == {s[k] : k \in 1..Len(s)}

RECURSIVE InsertSorted(_, _)
InsertSorted(x, s) ==
    IF s = <<>> THEN <<x>>
    ELSE IF x <= Head(s) THEN <<x>> \o s
    ELSE <<Head(s)>> \o InsertSorted(x, Tail(s))

\* A list.sort() that leaves the list as it is.
NoSort(s) ==
    s

RECURSIVE ListSort(_)
\* list.sort(): ascending, duplicates kept.
ListSort(s) ==
    IF s = <<>> THEN <<>> ELSE InsertSorted(Head(s), ListSort(Tail(s)))

RECURSIVE flatten(_)
\* flatten(lst): the items of the nested lists, in order.
flatten(lst) ==
    IF lst = <<>> THEN <<>> ELSE Head(lst) \o flatten(Tail(lst))

IsSorted(s) == \A k \in 1..(Len(s) - 1) : s[k] <= s[k + 1]

NoDup(s) == \A j, k \in 1..Len(s) : j # k => s[j] # s[k]

\* ------------------------------------------------- DetectIPAddresses

\* What resolver.query(fqdn, 'A') does for one domain: it raises one of the
\* dns.resolver exceptions (err), or returns a non-empty answer (ans).
DnsErrors == {"NXDOMAIN", "NoAnswer", "Timeout", "NoNameservers"}
DnsAnswers == SeqsUpTo(Addr, MaxAnswer) \ {<<>>}
Raises(e) == [err |-> e, ans |-> <<>>]
Answers(a) == [err |-> "", ans |-> a]
DnsOutcomes == {Raises(e) : e \in DnsErrors} \cup {Answers(a) : a \in DnsAnswers}

\* _resolve_catch_err(fqdn), given what the query for fqdn does.
resolve_catch_err(out) ==
    IF out.err = "NXDOMAIN" THEN [raised |-> FALSE, exc |-> "", val |-> <<>>]
    ELSE IF out.err # "" THEN [raised |-> TRUE, exc |-> out.err, val |-> <<>>]
    ELSE [raised |-> FALSE, exc |-> "", val |-> out.ans]

RECURSIVE ResolveEach(_, _, _)
\* [list(resolver(fqdn)) for fqdn in self.fqdns]: the domains are queried in
\* order and the first exception ends the comprehension. outs[k] is what the
\* query for the k-th domain does; n counts the queries made, acc the lists.
ResolveEach(outs, n, acc) ==
    IF outs = <<>> THEN [raised |-> FALSE, exc |-> "", queried |-> n, lists |-> acc]
    ELSE LET r == resolve_catch_err(Head(outs))
         IN  IF r.raised
             THEN [raised |-> TRUE, exc |-> r.exc, queried |-> n + 1, lists |-> acc]
             ELSE ResolveEach(Tail(outs), n + 1, Append(acc, r.val))

\* The orders list(set(...)) may list the members of S in.
Orderings(S) ==
    {s \in SeqsUpTo(S, Cardinality(S)) : Len(s) = Cardinality(S) /\ Range(s) = S}

\* The set of addresses built on lines 198-199 (every answer record is truthy,
\* so filter(None, ...) drops nothing).
AddressSet(lists) == Range(flatten(lists))

\* iplist(): order is the order in which list(set(...)) lists the addresses.
iplist(outs, order) ==
    LET r == ResolveEach(outs, 0, <<>>)
    IN  IF r.raised
        THEN [raised |-> TRUE, exc |-> r.exc, queried |-> r.queried, value |-> <<>>]
        ELSE [raised |-> FALSE, exc |-> "", queried |-> r.queried,
              value |-> ListSort(order)]

\* The orders iplist may be handed for outs.
IplistOrders(outs) ==
    LET r == ResolveEach(outs, 0, <<>>)
    IN  IF r.raised THEN {<<>>} ELSE Orderings(AddressSet(r.lists))

\* ------------------------------------------------- IPSetHandler commands

\* The text of a command's stderr is a sequence of words; the two words below,
\* next to each other, stand for 'set with the same name already exists'.
Words == {"set with the same name", "already exists", "other"}
ExistsMsg == <<"set with the same name", "already exists">>

\* str.find(pat): the lowest index (from 0) at which pat starts in s, or -1.
find(s, pat) ==
    LET at == {k \in 0..(Len(s) - Len(pat)) : SubSeq(s, k + 1, k + Len(pat)) = pat}
    IN  IF at = {} THEN -1 ELSE CHOOSE k \in at : \A j \in at : k <= j

\* What a finished subprocess hands back: p.returncode and (so, se).
CmdResults ==
    [returncode : 0..2, so : {<<>>, <<"other">>}, se : SeqsUpTo(Words, MaxStderr)]

\* run_ipset_cmd that takes the stderr text alone as the sign of an existing set.
RunIgnoringStdout(p, msg_on_existing_ipset, msg_on_creating_ipset) ==
    IF p.returncode # 0
    THEN IF find(p.se, ExistsMsg) > -1
         THEN [raised |-> FALSE, log |-> <<msg_on_existing_ipset>>]
         ELSE [raised |-> TRUE, log |-> <<>>]
    ELSE [raised |-> FALSE,
          log |-> IF msg_on_creating_ipset # "" THEN <<msg_on_creating_ipset>> ELSE <<>>]

\* run_ipset_cmd(cmds, ...), given what the subprocess hands back: whether
\* IPSetError is raised, and what is logged.
run_ipset_cmd(p, msg_on_existing_ipset, msg_on_creating_ipset) ==
    IF p.returncode # 0
    THEN IF p.so = <<>> /\ find(p.se, ExistsMsg) > -1
         THEN [raised |-> FALSE, log |-> <<msg_on_existing_ipset>>]
         ELSE [raised |-> TRUE, log |-> <<>>]
    ELSE [raised |-> FALSE,
          log |-> IF msg_on_creating_ipset # "" THEN <<msg_on_creating_ipset>> ELSE <<>>]

\* An add that takes every outcome of the command for a success.
AddNeverRaises(p) == [raised |-> FALSE, log |-> <<>>]

\* create_ipset(), destroy_ipset() and the flush and add of update_ipset.
create_ipset(p) == run_ipset_cmd(p, "ipset exists", "Creating ipset")
destroy_ipset(p) == run_ipset_cmd(p, "", "")
flush_ipset(p) == run_ipset_cmd(p, "", "")
add_ipset(p) == run_ipset_cmd(p, "", "")

\* ---------------------------------------------------------- the kernel

whitelist_ipset_name == "blocky_local_ip_whitelist"
blocklist_ipset_name == "blocky_blacklist"
SetNames == {whitelist_ipset_name, blocklist_ipset_name}

WlComment == "Blocky Whitelist IPTables Rule"
BlComment == "Blocky IPTables Rule"

\* A rule of the chain: its comment match (the marker), the set its set match
\* names, and its target. A rule of another program carries no marker.
ForeignRule == [comment |-> "", match_set |-> "", target |-> "ACCEPT"]
WlRule == [comment |-> WlComment, match_set |-> whitelist_ipset_name, target |-> "ACCEPT"]
BlRule == [comment |-> BlComment, match_set |-> blocklist_ipset_name, target |-> "DROP"]

NoSet == [exists |-> FALSE, members |-> {}]

\* What the subprocess of a kernel-set command hands back.
OkResult == [returncode |-> 0, so |-> <<>>, se |-> <<>>]
ExistsResult == [returncode |-> 1, so |-> <<>>, se |-> <<"other", "set with the same name", "already exists">>]
ErrResult == [returncode |-> 1, so |-> <<>>, se |-> <<"other">>]

\* The ipset tool run on the sets k next to the chain ch: the result it hands
\* back and the sets afterwards. glitch is a failure from outside the tool's
\* logic (the binary cannot be run, the kernel refuses). A set that exists is
\* not created again, a set a rule names is not destroyed, an address already
\* in the set or the empty string is not added.
ipset_tool(op, name, ip, k, ch, glitch) ==
    LET fail == [res |-> ErrResult, k |-> k]
    IN  IF glitch THEN fail
        ELSE CASE op = "create" ->
                    IF k[name].exists THEN [res |-> ExistsResult, k |-> k]
                    ELSE [res |-> OkResult, k |-> [k EXCEPT ![name] = [exists |-> TRUE, members |-> {}]]]
               [] op = "destroy" ->
                    IF ~k[name].exists \/ (\E n \in 1..Len(ch) : ch[n].match_set = name)
                    THEN fail
                    ELSE [res |-> OkResult, k |-> [k EXCEPT ![name] = NoSet]]
               [] op = "flush" ->
                    IF ~k[name].exists THEN fail
                    ELSE [res |-> OkResult, k |-> [k EXCEPT ![name].members = {}]]
               [] op = "add" ->
                    IF ~k[name].exists \/ ip = EmptyStr \/ ip \in k[name].members
                    THEN fail
                    ELSE [res |-> OkResult, k |-> [k EXCEPT ![name].members = @ \cup {ip}]]

\* chain.insert_rule(rule, position): position 0 is the head of the chain.
InsertAt(ch, r, pos) ==
    SubSeq(ch, 1, pos) \o <<r>> \o SubSeq(ch, pos + 1, Len(ch))

\* _rule_find(): the first rule with the marker, or None; self.rule is truthy
\* exactly when there is one.
rule_find(ch, comment) ==
    \E n \in 1..Len(ch) : ch[n].comment = comment

\* chain.delete_rule(rule): the library deletes the first rule of the chain
\* that equals the one it is given.
chain_delete_rule(ch, r) ==
    LET at == {n \in 1..Len(ch) : ch[n] = r}
    IN  IF at = {} THEN ch
        ELSE LET f == CHOOSE n \in at : \A m \in at : n <= m
             IN  SubSeq(ch, 1, f - 1) \o SubSeq(ch, f + 1, Len(ch))

RECURSIVE DeleteEach(_, _, _)
\* The loop of delete_rule(): rules is the list chain.rules returned when the
\* loop began, ch the chain as the deletions so far have left it.
DeleteEach(rules, ch, comment) ==
    IF rules = <<>> THEN ch
    ELSE DeleteEach(Tail(rules),
                    IF Head(rules).comment = comment
                    THEN chain_delete_rule(ch, Head(rules)) ELSE ch,
                    comment)

\* A delete_rule() that stops after the first rule with the marker.
DeleteFirstOnly(ch, comment) ==
    LET at == {n \in 1..Len(ch) : ch[n].comment = comment}
    IN  IF at = {} THEN ch
        ELSE chain_delete_rule(ch, ch[CHOOSE n \in at : \A m \in at : n <= m])

\* delete_rule(): each rule of the chain that carries the marker is deleted.
delete_rule(ch, comment) ==
    DeleteEach(ch, ch, comment)

\* ------------------------------------------------------------- settings

\* A setting read from the config file: text that int() accepts, with its
\* value, or text that int() rejects.
IntSetting(n) == [int |-> TRUE, n |-> n]
NotAnInt == [int |-> FALSE, n |-> 0]

\* The text of whitelist_local_ips is a sequence of address tokens, commas and
\* blanks.
COMMA == -1
BLANK == -2

RECURSIVE split(_, _)
\* s.split(','): cur is the field being read.
split(s, cur) ==
    IF s = <<>> THEN <<cur>>
    ELSE IF Head(s) = COMMA THEN <<cur>> \o split(Tail(s), <<>>)
    ELSE split(Tail(s), Append(cur, Head(s)))

\* x.strip() of one field: the blanks go; a field with nothing else is ''.
strip(x) ==
    LET t == SelectSeq(x, LAMBDA c : c # BLANK)
    IN  IF t = <<>> THEN EmptyStr ELSE Head(t)

\* parse_comma_separated(s)
parse_comma_separated(s) ==
    LET f == split(s, <<>>)
    IN  [k \in 1..Len(f) |-> strip(f[k])]

\* The whitelist_local_ips texts tried: unset or empty, one address, two
\* addresses out of order.
WlSettings == {<<>>, <<1>>, <<2, COMMA, BLANK, 1>>}

\* ------------------------------------------------------------ the state

\* Two instances of the program on one host.
Procs == {"p1", "p2"}

VARIABLES
    chain,      \* the rules of the configured chain, head first
    kset,       \* the kernel's sets: name -> [exists, members]
    pidfile,    \* "none", the instance whose pid the pidfile holds, "stale" for
                \* the pid of a process of an earlier run, "empty" for a file
                \* with no line, "text" for a file that holds no number
    conf_wl,    \* the whitelist_local_ips text of the config file
    pc,         \* where each instance is
    fg,         \* run_foreground
    title,      \* whether the process's name is proc_title
    rule_pos,   \* the rule_pos setting
    hrule,      \* self.rule of the whitelist and blocklist IPTablesHandler is set
    prev,       \* iplist_prev of the whitelist and blocklist IPSetHandler
    call,       \* the update_ipset call under way: sorted list, addresses to add, commands run
    checks,     \* the startup checks run so far, in order
    ex,         \* how the process ended
    tdlog,      \* what the SIGTERM handler has done
    oplog,      \* the kernel-set commands and rule insertions before the poll loop
    sigd,       \* the state the process was in when a SIGTERM was delivered ("" when none was)
    cnt,        \* cnt of BlockManager.run
    polls,      \* the passes of the poll loop the instance has begun
    summ,       \* the passes in which the instance logged the blocked addresses
    r_outs,     \* resolver: what the query for each domain does
    r_out,      \* resolver: what iplist() did
    c_p,        \* command: what the subprocess hands back
    c_cmd,      \* command: the operation that ran it
    c_out,      \* command: what run_ipset_cmd did
    d_chain,    \* deletion: the chain delete_rule() is called on
    d_out       \* deletion: the marker of the handler and the chain it leaves

sysVars == <<chain, kset, pidfile, conf_wl, pc, fg, title, rule_pos, hrule, prev, call,
             checks, ex, tdlog, oplog, sigd, cnt, polls, summ>>
resVars == <<r_outs, r_out>>
cmdVars == <<c_p, c_cmd, c_out>>
delVars == <<d_chain, d_out>>
vars == <<sysVars, resVars, cmdVars, delVars>>

\* How a process ended: its exit status, by what (sys.exit, an exception
\* nothing caught, a signal), and the exception that ended it, if one did.
Ended(status, by, cause) == [done |-> TRUE, status |-> status, by |-> by, cause |-> cause]
Running == [done |-> FALSE, status |-> 0, by |-> "", cause |-> ""]
NoCall == [arg |-> <<>>, todo |-> <<>>, cmds |-> <<>>]
NoOut == [raised |-> FALSE, exc |-> "none", queried |-> 0, value |-> <<>>]
NoCmdOut == [raised |-> FALSE, log |-> <<"none">>]
NoDelOut == [comment |-> "none", chain |-> <<>>]

Alive(i) == pc[i] # "off" /\ ~ex[i].done

\* psutil.pid_exists(pid) for the pid a pidfile holds.
PidAlive(p) == p \in Procs /\ Alive(p)

\* The steps of the system leave the resolver, command and deletion checks alone.
Others == UNCHANGED <<r_outs, r_out, c_p, c_cmd, c_out, d_chain, d_out>>

RulePosSettings == {NotAnInt} \cup {IntSetting(n) : n \in (-1)..(MaxForeign + 2)}
CheckEverySettings == {NotAnInt, IntSetting(-1), IntSetting(0), IntSetting(1)}

\* Before a process is started: the chain holds rules of others, no set exists.
InitRest ==
    /\ chain \in {[k \in 1..n |-> ForeignRule] : n \in 0..MaxForeign}
    /\ kset = [n \in SetNames |-> NoSet]
    /\ conf_wl \in WlSettings
    /\ pc = [i \in Procs |-> "off"]
    /\ fg = [i \in Procs |-> FALSE]
    /\ title = [i \in Procs |-> FALSE]
    /\ rule_pos = [i \in Procs |-> IntSetting(0)]
    /\ hrule = [i \in Procs |-> [wl |-> FALSE, bl |-> FALSE]]
    /\ prev = [i \in Procs |-> [wl |-> <<>>, bl |-> <<>>]]
    /\ call = [i \in Procs |-> NoCall]
    /\ checks = [i \in Procs |-> <<>>]
    /\ ex = [i \in Procs |-> Running]
    /\ tdlog = [i \in Procs |-> <<>>]
    /\ oplog = [i \in Procs |-> <<>>]
    /\ sigd = [i \in Procs |-> ""]
    /\ cnt = [i \in Procs |-> 1]
    /\ polls = [i \in Procs |-> 0]
    /\ summ = [i \in Procs |-> {}]

InitSys == InitRest /\ pidfile = "none"

IdleRes == r_outs = <<>> /\ r_out = NoOut
IdleCmd == c_p = OkResult /\ c_cmd = "none" /\ c_out = NoCmdOut
IdleDel == d_chain = <<>> /\ d_out = NoDelOut

Init == InitSys /\ IdleRes /\ IdleCmd /\ IdleDel

\* ---------------------------------------------------- how a process ends

\* sys.exit(n): the exit status is n modulo 256.
SysExit(i, n) ==
    /\ ex' = [ex EXCEPT ![i] = Ended(n % 256, "exit", "")]
    /\ pc' = [pc EXCEPT ![i] = "exited"]

\* An exception nothing catches: the traceback is printed, the status is 1.
UncaughtExc(i, exc) ==
    /\ ex' = [ex EXCEPT ![i] = Ended(1, "exception", exc)]
    /\ pc' = [pc EXCEPT ![i] = "exited"]

\* An exception of a library (iptables, DNS) that nothing catches.
Uncaught(i) == UncaughtExc(i, "")

\* The except clauses of Main.__init__, lines 526-555: the exit code of each
\* exception; the clause of ChainNotFound reads settings.table, an attribute
\* the Settings dict does not have, and raises AttributeError itself.
main_except(exc) ==
    CASE exc = "ConfigFileNotFound"    -> [raises |-> FALSE, code |-> 2]
      [] exc = "TableNotFound"         -> [raises |-> FALSE, code |-> 3]
      [] exc = "ChainNotFound"         -> [raises |-> TRUE,  code |-> 4]
      [] exc = "IPSetError"            -> [raises |-> FALSE, code |-> 5]
      [] exc = "IncorrectCheckEvery"   -> [raises |-> FALSE, code |-> 6]
      [] exc = "IncorrectLogType"      -> [raises |-> FALSE, code |-> 7]
      [] exc = "IncorrectLogLevel"     -> [raises |-> FALSE, code |-> 8]
      [] exc = "IncorrectLogFacility"  -> [raises |-> FALSE, code |-> 9]
      [] exc = "LogPathUnset"          -> [raises |-> FALSE, code |-> 10]
      [] exc = "IncorrectRulePosition" -> [raises |-> FALSE, code |-> 10]

\* An exception raised inside Main.__init__: its except clause runs.
Fatal(i, exc) ==
    IF main_except(exc).raises
    THEN UncaughtExc(i, exc)
    ELSE /\ ex' = [ex EXCEPT ![i] = Ended(main_except(exc).code % 256, "exit", exc)]
         /\ pc' = [pc EXCEPT ![i] = "exited"]

Goto(i, l) ==
    /\ pc' = [pc EXCEPT ![i] = l]
    /\ UNCHANGED ex

\* ----------------------------------------------------------- SIGTERM

PreDaemon == {"config", "loglevel", "chk_every", "chk_root", "chk_cmds", "chk_table",
              "chk_pidfile", "chk_rpos_setting", "chk_rpos", "sethandler", "daemon"}
\* In BlockManager.run with mgr.iptables_handler still None (lines 458-480).
EarlyRun == {"wl_create", "wl_find", "wl_insert", "wl_sync", "wl_flush", "wl_add",
             "bl_create", "bl_find"}
\* From line 481 on: both handlers of the blocklist are assigned.
LateRun == {"bl_insert", "resolve", "bl_sync", "bl_flush", "bl_add", "sleep"}
InTeardown == {"td_delete", "td_destroy"}

\* The state of section 4.5 a running process is in.
Phase(l) ==
    IF l \in PreDaemon THEN "PREFLIGHT"
    ELSE IF l \in {"wl_create", "wl_find", "wl_insert", "wl_sync", "wl_flush", "wl_add"} THEN "INIT"
    ELSE IF l \in {"bl_create", "bl_find", "bl_insert"} THEN "WHITELIST_READY"
    ELSE IF l \in InTeardown THEN "SHUTTING_DOWN"
    ELSE "RUNNING"

\* signal_map is installed by DaemonContext only (Main.run, lines 559-565).
HandlerInstalled(j) == ~fg[j] /\ pc[j] \in (EarlyRun \cup LateRun)

\* Where a SIGTERM takes process j: killed when no handler is installed; the
\* handler's first line raises AttributeError while mgr.iptables_handler is
\* None; otherwise the handler runs.
AfterSigterm(j) ==
    IF ~HandlerInstalled(j)
    THEN [pc |-> "exited", ex |-> Ended(143, "signal", "")]
    ELSE IF pc[j] \in EarlyRun
    THEN [pc |-> "exited", ex |-> Ended(1, "exception", "AttributeError")]
    ELSE [pc |-> "td_delete", ex |-> ex[j]]

\* What a SIGTERM does to the frame it interrupts: neither the handler nor the
\* kill returns to BlockManager.run, so its cnt, the update_ipset call under
\* way and the iplist_prev of its handlers are never read again.
Interrupted(j) ==
    /\ sigd' = [sigd EXCEPT ![j] = Phase(pc[j])]
    /\ prev' = [prev EXCEPT ![j] = [wl |-> <<>>, bl |-> <<>>]]
    /\ call' = [call EXCEPT ![j] = NoCall]
    /\ cnt' = [cnt EXCEPT ![j] = 1]
    /\ polls' = [polls EXCEPT ![j] = 0]
    /\ summ' = [summ EXCEPT ![j] = {}]

\* A SIGTERM sent to j by the operator (kill, service stop). A second SIGTERM
\* to one process is not modelled.
Sigterm(j) ==
    /\ Alive(j) /\ sigd[j] = ""
    /\ Others
    /\ pc' = [pc EXCEPT ![j] = AfterSigterm(j).pc]
    /\ ex' = [ex EXCEPT ![j] = AfterSigterm(j).ex]
    /\ Interrupted(j)
    /\ UNCHANGED <<chain, kset, pidfile, conf_wl, fg, title, rule_pos, hrule,
                   checks, tdlog, oplog>>

\* ------------------------------------------------------------- startup

\* The process is started. Its name is proc_title from the start when the
\* script is run by its own name, and the interpreter's until setproctitle.
Start(i) ==
    /\ pc[i] = "off"
    /\ Others
    /\ \E t \in BOOLEAN : title' = [title EXCEPT ![i] = t]
    /\ Goto(i, "config")
    /\ UNCHANGED <<chain, kset, pidfile, conf_wl, fg, rule_pos, hrule, prev, call,
                   checks, tdlog, oplog, sigd, cnt, polls, summ>>

Frame == UNCHANGED <<chain, kset, pidfile, conf_wl, fg, title, rule_pos, hrule, prev, call,
                     checks, tdlog, oplog, sigd, cnt, polls, summ>>

\* Settings(): the config file has no [main] section (exit 2), lacks a
\* mandatory option (exit 1), or is read.
ReadConfig(i) ==
    /\ pc[i] = "config"
    /\ Others
    /\ \/ Fatal(i, "ConfigFileNotFound")
       \/ SysExit(i, 1)
       \/ Goto(i, "loglevel")
    /\ Frame

\* set_log_level(log_level) of Main.__init__.
SetLogLevel(i) ==
    /\ pc[i] = "loglevel"
    /\ Others
    /\ \/ Fatal(i, "IncorrectLogLevel")
       \/ Goto(i, "chk_every")
    /\ Frame

\* No process is signalled by the step.
Untouched == UNCHANGED <<sigd, prev, call, cnt, polls, summ>>

\* One startup check: it is noted as run, with whether it passed.
Ran(i, name, ok) ==
    /\ checks' = [checks EXCEPT ![i] = Append(@, [name |-> name, ok |-> ok])]
    /\ UNCHANGED <<chain, kset, conf_wl, fg, title, hrule, tdlog, oplog>>

\* check_int_check_every()
check_int_check_every(cev) == cev.int /\ cev.n > 0

CheckEvery(i) ==
    /\ pc[i] = "chk_every"
    /\ Others
    /\ \E cev \in CheckEverySettings :
          LET ok == check_int_check_every(cev)
          IN  /\ IF ok THEN Goto(i, "chk_root") ELSE Fatal(i, "IncorrectCheckEvery")
              /\ Ran(i, "check_every", ok)
    /\ UNCHANGED <<pidfile, rule_pos, sigd, prev, call, cnt, polls, summ>>

\* check_root() that prints the message and goes on.
CheckRootNoExit(i) ==
    /\ pc[i] = "chk_root"
    /\ Others
    /\ \E euid \in {0, 1000} :
          /\ Goto(i, "chk_cmds")
          /\ Ran(i, "root", euid = 0)
    /\ UNCHANGED <<pidfile, rule_pos, sigd, prev, call, cnt, polls, summ>>

\* check_root()
CheckRoot(i) ==
    /\ pc[i] = "chk_root"
    /\ Others
    /\ \E euid \in {0, 1000} :
          /\ IF euid # 0 THEN SysExit(i, 1) ELSE Goto(i, "chk_cmds")
          /\ Ran(i, "root", euid = 0)
    /\ UNCHANGED <<pidfile, rule_pos, sigd, prev, call, cnt, polls, summ>>

\* check_command_availability(): status is the wait status getstatusoutput
\* returns, the command's exit code times 256.
CheckCommands(i) ==
    /\ pc[i] = "chk_cmds"
    /\ Others
    /\ \E status \in {0, 256, 127 * 256} :
          /\ IF status # 0 THEN SysExit(i, status) ELSE Goto(i, "chk_table")
          /\ Ran(i, "commands", status = 0)
    /\ UNCHANGED <<pidfile, rule_pos, sigd, prev, call, cnt, polls, summ>>

\* check_table_and_chain(): TableNotFound is caught in Main.__init__ (exit 3);
\* the handler of ChainNotFound reads settings.table, an attribute the
\* Settings dict does not have, and the AttributeError is caught nowhere.
CheckTableChain(i) ==
    /\ pc[i] = "chk_table"
    /\ Others
    /\ \/ Fatal(i, "TableNotFound") /\ Ran(i, "table_chain", FALSE)
       \/ Fatal(i, "ChainNotFound") /\ Ran(i, "table_chain", FALSE)
       \/ Goto(i, "chk_pidfile") /\ Ran(i, "table_chain", TRUE)
    /\ UNCHANGED <<pidfile, rule_pos, sigd, prev, call, cnt, polls, summ>>

\* check_pidfile_process(): no pidfile, or one that names a process. A file
\* with no line leaves pid at None and int(None) raises TypeError, which
\* nothing catches; text that is no number raises ValueError, which is caught,
\* and the check returns. A process that is gone makes psutil.Process raise
\* NoSuchProcess, which nothing catches; a live one named proc_title is sent
\* SIGTERM; a live one of another name ends the startup with exit 10.
CheckPidfile(i) ==
    /\ pc[i] = "chk_pidfile"
    /\ Others
    /\ UNCHANGED <<pidfile, rule_pos>>
    /\ IF pidfile = "none"
       THEN Goto(i, "chk_rpos_setting") /\ Ran(i, "pidfile", TRUE) /\ Untouched
       ELSE IF pidfile = "empty"
       THEN UncaughtExc(i, "TypeError") /\ Ran(i, "pidfile", FALSE) /\ Untouched
       ELSE IF pidfile = "text"
       THEN Goto(i, "chk_rpos_setting") /\ Ran(i, "pidfile", TRUE) /\ Untouched
       ELSE LET j == pidfile
            IN  IF ~PidAlive(j) THEN UncaughtExc(i, "NoSuchProcess") /\ Ran(i, "pidfile", FALSE) /\ Untouched
                ELSE IF ~title[j] THEN SysExit(i, 10) /\ Ran(i, "pidfile", FALSE) /\ Untouched
                ELSE IF sigd[j] # ""
                THEN Goto(i, "chk_rpos_setting") /\ Ran(i, "pidfile", TRUE) /\ Untouched
                ELSE /\ pc' = [pc EXCEPT ![i] = "chk_rpos_setting", ![j] = AfterSigterm(j).pc]
                     /\ ex' = [ex EXCEPT ![j] = AfterSigterm(j).ex]
                     /\ Interrupted(j)
                     /\ Ran(i, "pidfile", TRUE)

\* check_rule_pos_setting()
check_rule_pos_setting(rpos) == rpos.int /\ ~(rpos.n < 0)

CheckRulePosSetting(i) ==
    /\ pc[i] = "chk_rpos_setting"
    /\ Others
    /\ \E rpos \in RulePosSettings :
          LET ok == check_rule_pos_setting(rpos)
          IN  /\ rule_pos' = [rule_pos EXCEPT ![i] = rpos]
              /\ IF ok THEN Goto(i, "chk_rpos") ELSE Fatal(i, "IncorrectRulePosition")
              /\ Ran(i, "rule_pos_setting", ok)
    /\ UNCHANGED <<pidfile, sigd, prev, call, cnt, polls, summ>>

\* A check_rule_pos() that also refuses the position just past the last rule.
CheckRulePosOffByOne(rpos, rules) == ~(rpos >= Len(rules))

\* check_rule_pos()
check_rule_pos(rpos, rules) == ~(rpos > Len(rules))

CheckRulePos(i) ==
    /\ pc[i] = "chk_rpos"
    /\ Others
    /\ LET ok == check_rule_pos(rule_pos[i].n, chain)
       IN  /\ IF ok THEN Goto(i, "sethandler") ELSE Fatal(i, "IncorrectRulePosition")
           /\ Ran(i, "rule_pos", ok)
    /\ UNCHANGED <<pidfile, rule_pos, sigd, prev, call, cnt, polls, summ>>

\* set_handler(...): IncorrectLogType (7), IncorrectLogFacility (9),
\* LogPathUnset (10), or the handler is set.
SetHandler(i) ==
    /\ pc[i] = "sethandler"
    /\ Others
    /\ \/ Fatal(i, "IncorrectLogType")
       \/ Fatal(i, "IncorrectLogFacility")
       \/ Fatal(i, "LogPathUnset")
       \/ Goto(i, "daemon")
    /\ Frame

\* Main.run(): in the foreground mgr.run() is called as it is; otherwise the
\* DaemonContext writes the pidfile and installs the SIGTERM handler.
Daemonize(i) ==
    /\ pc[i] = "daemon"
    /\ Others
    /\ \E f \in BOOLEAN :
          /\ fg' = [fg EXCEPT ![i] = f]
          /\ pidfile' = IF f THEN pidfile ELSE i
    /\ Goto(i, "wl_create")
    /\ UNCHANGED <<chain, kset, conf_wl, title, rule_pos, hrule, prev, call, checks,
                   tdlog, oplog, sigd, cnt, polls, summ>>

\* ------------------------------------------------------ IPSetHandler

SetOf(w) == IF w = "wl" THEN whitelist_ipset_name ELSE blocklist_ipset_name
Cmd(op, name, ip) == [op |-> op, name |-> name, ip |-> ip]

\* An update_ipset that never takes the list to be unchanged.
AlwaysChanged(lst, iplist_prev) ==
    TRUE

\* update_ipset, line 304: the sorted list is compared with iplist_prev.
list_changed(lst, iplist_prev) ==
    lst # iplist_prev

\* update_ipset(iplist), lines 303-304: the list is sorted; when it differs
\* from iplist_prev the flush comes next, otherwise the call returns.
SyncEnter(i, w, lst, flushpc, nextpc) ==
    LET s == ListSort(lst)
    IN  /\ call' = [call EXCEPT ![i] = [arg |-> s, todo |-> s, cmds |-> <<>>]]
        /\ IF list_changed(s, prev[i][w]) THEN Goto(i, flushpc) ELSE Goto(i, nextpc)
        /\ UNCHANGED <<chain, kset, pidfile, conf_wl, fg, title, rule_pos, hrule, prev,
                       checks, tdlog, sigd, cnt, polls, summ>>

\* update_ipset, lines 306-307 (and 313 when the list is empty): ipset flush.
\* An IPSetError is caught nowhere.
SyncFlush(i, w, addpc, nextpc, G) ==
    \E glitch \in G :
        LET t == ipset_tool("flush", SetOf(w), 0, kset, chain, glitch)
        IN  /\ kset' = t.k
            /\ call' = [call EXCEPT ![i].cmds = Append(@, Cmd("flush", SetOf(w), 0))]
            /\ IF flush_ipset(t.res).raised
               THEN UncaughtExc(i, "IPSetError") /\ UNCHANGED prev
               ELSE IF call[i].todo = <<>>
               THEN Goto(i, nextpc) /\ prev' = [prev EXCEPT ![i][w] = call[i].arg]
               ELSE Goto(i, addpc) /\ UNCHANGED prev
            /\ UNCHANGED <<chain, pidfile, conf_wl, fg, title, rule_pos, hrule,
                           checks, tdlog, sigd, cnt, polls, summ>>

\* update_ipset, lines 309-313: ipset add of the next address; after the last
\* one iplist_prev is set.
SyncAdd(i, w, nextpc, G) ==
    \E glitch \in G :
        LET ip == Head(call[i].todo)
            t  == ipset_tool("add", SetOf(w), ip, kset, chain, glitch)
        IN  /\ kset' = t.k
            /\ call' = [call EXCEPT ![i].cmds = Append(@, Cmd("add", SetOf(w), ip)),
                                    ![i].todo = Tail(@)]
            /\ IF add_ipset(t.res).raised
               THEN UncaughtExc(i, "IPSetError") /\ UNCHANGED prev
               ELSE IF Tail(call[i].todo) = <<>>
               THEN Goto(i, nextpc) /\ prev' = [prev EXCEPT ![i][w] = call[i].arg]
               ELSE UNCHANGED <<pc, ex, prev>>
            /\ UNCHANGED <<chain, pidfile, conf_wl, fg, title, rule_pos, hrule,
                           checks, tdlog, sigd, cnt, polls, summ>>

\* IPSetHandler(...) and create_ipset(): iplist_prev starts empty.
Create(i, w, nextpc, G) ==
    \E glitch \in G :
        LET t == ipset_tool("create", SetOf(w), 0, kset, chain, glitch)
        IN  /\ kset' = t.k
            /\ prev' = [prev EXCEPT ![i][w] = <<>>]
            /\ oplog' = [oplog EXCEPT ![i] = Append(@, Cmd("create", SetOf(w), 0))]
            /\ IF create_ipset(t.res).raised THEN UncaughtExc(i, "IPSetError") ELSE Goto(i, nextpc)
            /\ UNCHANGED <<chain, pidfile, conf_wl, fg, title, rule_pos, hrule, call,
                           checks, tdlog, sigd, cnt, polls, summ>>

\* ---------------------------------------------------- IPTablesHandler

\* IPTablesHandler(...): _table_find, _chain_find and _rule_find.
Find(i, w, comment, nextpc) ==
    /\ hrule' = [hrule EXCEPT ![i][w] = rule_find(chain, comment)]
    /\ Goto(i, nextpc)
    /\ UNCHANGED <<chain, kset, pidfile, conf_wl, fg, title, rule_pos, prev, call,
                   checks, tdlog, oplog, sigd, cnt, polls, summ>>

\* chain.insert_rule(rule, position): the library refuses a position past the
\* end of the chain and a rule whose set does not exist.
chain_insert_rule(ch, k, r, pos, glitch) ==
    IF glitch \/ pos > Len(ch) \/ ~k[r.match_set].exists
    THEN [ok |-> FALSE, chain |-> ch]
    ELSE [ok |-> TRUE, chain |-> InsertAt(ch, r, pos)]

\* insert_rule(): nothing is done when self.rule is set; otherwise self.rule
\* is set and the rule is inserted at rule_pos. An error of the library is
\* caught nowhere.
Insert(i, w, r, pos, nextpc, G) ==
    IF hrule[i][w]
    THEN /\ Goto(i, nextpc)
         /\ UNCHANGED <<chain, hrule, oplog>>
    ELSE \E glitch \in G :
            LET t == chain_insert_rule(chain, kset, r, pos, glitch)
            IN  /\ chain' = t.chain
                /\ hrule' = [hrule EXCEPT ![i][w] = TRUE]
                /\ oplog' = [oplog EXCEPT ![i] = Append(@, Cmd("insert", r.comment, pos))]
                /\ IF t.ok THEN Goto(i, nextpc) ELSE Uncaught(i)

\* -------------------------------------------------- BlockManager.run

\* A start of BlockManager.run that creates the blocklist set first.
WlCreateAsBl(i, G) ==
    /\ pc[i] = "wl_create"
    /\ Others
    /\ Create(i, "bl", "wl_find", G)

\* Lines 461-462.
WlCreate(i, G) ==
    /\ pc[i] = "wl_create"
    /\ Others
    /\ Create(i, "wl", "wl_find", G)

\* Lines 464-470.
WlFind(i) ==
    /\ pc[i] = "wl_find"
    /\ Others
    /\ Find(i, "wl", WlComment, "wl_insert")

\* Line 471.
WlInsert(i, G) ==
    /\ pc[i] = "wl_insert"
    /\ Others
    /\ Insert(i, "wl", WlRule, rule_pos[i].n, "wl_sync", G)
    /\ UNCHANGED <<kset, pidfile, conf_wl, fg, title, rule_pos, prev, call,
                   checks, tdlog, sigd, cnt, polls, summ>>

\* Line 472.
WlSync(i) ==
    /\ pc[i] = "wl_sync"
    /\ Others
    /\ SyncEnter(i, "wl", parse_comma_separated(conf_wl), "wl_flush", "bl_create")
    /\ UNCHANGED oplog

WlFlush(i, G) ==
    /\ pc[i] = "wl_flush"
    /\ Others
    /\ SyncFlush(i, "wl", "wl_add", "bl_create", G)
    /\ oplog' = [oplog EXCEPT ![i] = Append(@, Cmd("flush", SetOf("wl"), 0))]

WlAdd(i, G) ==
    /\ pc[i] = "wl_add"
    /\ Others
    /\ SyncAdd(i, "wl", "bl_create", G)
    /\ oplog' = [oplog EXCEPT ![i] = Append(@, Cmd("add", SetOf("wl"), Head(call[i].todo)))]

\* Lines 474-475.
BlCreate(i, G) ==
    /\ pc[i] = "bl_create"
    /\ Others
    /\ Create(i, "bl", "bl_find", G)

\* Lines 477-480: mgr.iptables_handler is assigned.
BlFind(i) ==
    /\ pc[i] = "bl_find"
    /\ Others
    /\ Find(i, "bl", BlComment, "bl_insert")

\* Lines 481-487: the blocklist rule goes in at rule_pos + 1, the process
\* takes its title and cnt starts at 1.
BlInsert(i, G) ==
    /\ pc[i] = "bl_insert"
    /\ Others
    /\ Insert(i, "bl", BlRule, rule_pos[i].n + 1, "resolve", G)
    /\ title' = [title EXCEPT ![i] = IF pc'[i] = "resolve" THEN TRUE ELSE @]
    /\ cnt' = [cnt EXCEPT ![i] = 1]
    /\ polls' = [polls EXCEPT ![i] = 0]
    /\ summ' = [summ EXCEPT ![i] = {}]
    /\ UNCHANGED <<kset, pidfile, conf_wl, fg, rule_pos, prev, call, checks, tdlog, sigd>>

\* Line 490: every tenth poll logs the blocked addresses.
SummaryEvery == 10
\* The polls an instance makes in the one-at-a-time specification.
MaxPolls == 2

\* Line 490: the test that decides whether this pass logs the blocked addresses.
summary_due(c) == c % SummaryEvery = 0

\* A counter that starts the next cycle at 1 after a summary.
NextCntResetToOne(c) == (IF summary_due(c) THEN 1 ELSE c) + 1

\* Lines 492-493: cnt is set to 0 after a summary, and 1 is added in every pass.
next_cnt(c) == (IF summary_due(c) THEN 0 ELSE c) + 1

\* Lines 489-493: one domain is configured, and D is what its query may do;
\* iplist() raises, which ends the pass and the process before cnt is tested,
\* or returns the sorted addresses; then the summary is logged if it is due and
\* cnt goes through 1..10.
Resolve(i, D) ==
    /\ pc[i] = "resolve"
    /\ Others
    /\ \E out \in D : \E order \in IplistOrders(<<out>>) :
          LET r == iplist(<<out>>, order)
          IN  IF r.raised
              THEN Uncaught(i) /\ UNCHANGED <<call, cnt, summ>>
              ELSE /\ Goto(i, "bl_sync")
                   /\ call' = [call EXCEPT ![i] = [arg |-> r.value, todo |-> <<>>, cmds |-> <<>>]]
                   /\ summ' = [summ EXCEPT ![i] =
                                  IF summary_due(cnt[i]) THEN @ \cup {polls[i] + 1} ELSE @]
                   /\ cnt' = [cnt EXCEPT ![i] = next_cnt(@)]
    /\ polls' = [polls EXCEPT ![i] = @ + 1]
    /\ UNCHANGED <<chain, kset, pidfile, conf_wl, fg, title, rule_pos, hrule, prev,
                   checks, tdlog, oplog, sigd>>

\* Line 494.
BlSync(i) ==
    /\ pc[i] = "bl_sync"
    /\ Others
    /\ SyncEnter(i, "bl", call[i].arg, "bl_flush", "sleep")
    /\ UNCHANGED oplog

BlFlush(i, G) ==
    /\ pc[i] = "bl_flush"
    /\ Others
    /\ SyncFlush(i, "bl", "bl_add", "sleep", G)
    /\ UNCHANGED oplog

BlAdd(i, G) ==
    /\ pc[i] = "bl_add"
    /\ Others
    /\ SyncAdd(i, "bl", "sleep", G)
    /\ UNCHANGED oplog

\* Line 495.
Sleep(i) ==
    /\ pc[i] = "sleep"
    /\ Others
    /\ Goto(i, "resolve")
    /\ Frame

\* ------------------------------------------- sigterm_handler_partial

\* Line 107: mgr.iptables_handler.delete_rule(). An error of the library is
\* caught nowhere.
TdDelete(i, G) ==
    /\ pc[i] = "td_delete"
    /\ Others
    /\ tdlog' = [tdlog EXCEPT ![i] = Append(@, Cmd("delete_rule", BlComment, 0))]
    /\ \E glitch \in G :
          IF glitch
          THEN Uncaught(i) /\ UNCHANGED chain
          ELSE Goto(i, "td_destroy") /\ chain' = delete_rule(chain, BlComment)
    /\ UNCHANGED <<kset, pidfile, conf_wl, fg, title, rule_pos, hrule, prev, call,
                   checks, oplog, sigd, cnt, polls, summ>>

\* Lines 108-110: mgr.ipset_handler.destroy_ipset(), then sys.exit(0). An
\* IPSetError is caught nowhere.
TdDestroy(i, G) ==
    /\ pc[i] = "td_destroy"
    /\ Others
    /\ tdlog' = [tdlog EXCEPT ![i] = Append(@, Cmd("destroy", blocklist_ipset_name, 0))]
    /\ \E glitch \in G :
          LET t == ipset_tool("destroy", blocklist_ipset_name, 0, kset, chain, glitch)
          IN  /\ kset' = t.k
              /\ IF destroy_ipset(t.res).raised THEN UncaughtExc(i, "IPSetError") ELSE SysExit(i, 0)
    /\ UNCHANGED <<chain, pidfile, conf_wl, fg, title, rule_pos, hrule, prev, call,
                   checks, oplog, sigd, cnt, polls, summ>>

\* pidfile_ctxmgr never reaches its unlink (the exit passes through the yield),
\* so a pidfile of a process that is gone stays until something else removes it.
CleanPidfile ==
    /\ pidfile # "none" /\ ~PidAlive(pidfile)
    /\ Others
    /\ pidfile' = "none"
    /\ UNCHANGED <<chain, kset, conf_wl, pc, fg, title, rule_pos, hrule, prev, call,
                   checks, ex, tdlog, oplog, sigd, cnt, polls, summ>>

\* A process that has ended is started again: nothing of the old process is
\* left but what it did to the kernel and the pidfile.
Restart(i) ==
    /\ ex[i].done
    /\ Others
    /\ pc' = [pc EXCEPT ![i] = "off"]
    /\ ex' = [ex EXCEPT ![i] = Running]
    /\ fg' = [fg EXCEPT ![i] = FALSE]
    /\ title' = [title EXCEPT ![i] = FALSE]
    /\ rule_pos' = [rule_pos EXCEPT ![i] = IntSetting(0)]
    /\ hrule' = [hrule EXCEPT ![i] = [wl |-> FALSE, bl |-> FALSE]]
    /\ prev' = [prev EXCEPT ![i] = [wl |-> <<>>, bl |-> <<>>]]
    /\ call' = [call EXCEPT ![i] = NoCall]
    /\ checks' = [checks EXCEPT ![i] = <<>>]
    /\ tdlog' = [tdlog EXCEPT ![i] = <<>>]
    /\ oplog' = [oplog EXCEPT ![i] = <<>>]
    /\ sigd' = [sigd EXCEPT ![i] = ""]
    /\ cnt' = [cnt EXCEPT ![i] = 1]
    /\ polls' = [polls EXCEPT ![i] = 0]
    /\ summ' = [summ EXCEPT ![i] = {}]
    /\ pidfile' = IF pidfile = i THEN "stale" ELSE pidfile
    /\ UNCHANGED <<chain, kset, conf_wl>>

\* ------------------------------------------------------ specifications

\* Main.__init__: the settings, the log level, the startup checks, the log handler.
Preflight(i) ==
    \/ ReadConfig(i) \/ SetLogLevel(i)
    \/ CheckEvery(i) \/ CheckRoot(i) \/ CheckCommands(i) \/ CheckTableChain(i)
    \/ CheckPidfile(i) \/ CheckRulePosSetting(i) \/ CheckRulePos(i)
    \/ SetHandler(i)

\* The steps instance i takes by itself: G says whether a tool may fail for
\* reasons outside its logic, D what a DNS query may do, P how many passes of
\* the poll loop the instance makes.
Work(i, G, D, P) ==
    \/ Preflight(i) \/ Daemonize(i)
    \/ WlCreate(i, G) \/ WlFind(i) \/ WlInsert(i, G) \/ WlSync(i) \/ WlFlush(i, G)
    \/ WlAdd(i, G) \/ BlCreate(i, G) \/ BlFind(i) \/ BlInsert(i, G)
    \/ polls[i] < P /\ Resolve(i, D)
    \/ BlSync(i) \/ BlFlush(i, G) \/ BlAdd(i, G) \/ Sleep(i)
    \/ TdDelete(i, G) \/ TdDestroy(i, G)

\* The steps of instance i, with the SIGTERM an operator may send it.
Step(i, G, D, P) ==
    \/ Work(i, G, D, P)
    \/ Sigterm(i)

\* The instance of the one-at-a-time specification.
FirstProc == CHOOSE i \in Procs : TRUE

\* One instance at a time: it is started, runs, ends and is started again,
\* on the kernel state and the pidfile the run before has left.
Next ==
    \/ Start(FirstProc)
    \/ Step(FirstProc, BOOLEAN, DnsOutcomes, MaxPolls)
    \/ Restart(FirstProc)
    \/ CleanPidfile

Spec == Init /\ [][Next]_vars

\* What a pidfile may hold when the program is started.
PidfileContents == {"none", "empty", "text", "stale"}

InitStartup ==
    /\ InitRest /\ pidfile \in PidfileContents
    /\ IdleRes /\ IdleCmd /\ IdleDel

\* One instance is started and goes through Main.__init__, on any pidfile.
NextStartup ==
    \/ Start(FirstProc)
    \/ Preflight(FirstProc)

SpecStartup == InitStartup /\ [][NextStartup]_vars

\* What a DNS query may do where two instances run side by side.
ConcDns == {Raises("NXDOMAIN"), Raises("Timeout"), Answers(<<1>>)}
\* The polls each instance makes where two instances run side by side.
MaxConcPolls == 1

\* Two instances share one config file, with one whitelisted address.
InitConc == Init /\ conf_wl = <<1>>

\* Two instances, each started at any time and run once; the tools fail only
\* for what they are asked to do, and nothing removes a pidfile.
NextConc ==
    \/ \E i \in Procs :
          \/ Start(i)
          \/ Step(i, {FALSE}, ConcDns, MaxConcPolls)

SpecConc == InitConc /\ [][NextConc]_vars

\* Two instances and no operator: the only SIGTERM is the one the pidfile
\* check of a starting instance sends to the instance the pidfile names.
NextTakeover ==
    \/ \E i \in Procs :
          \/ Start(i)
          \/ Work(i, {FALSE}, ConcDns, MaxConcPolls)

SpecTakeover == InitConc /\ [][NextTakeover]_vars

\* The passes of the poll loop one instance makes where the summaries are
\* counted: two cycles of the counter and the start of a third.
MaxSummaryPolls == 21

\* One instance, run once, that polls through more than two cycles of cnt; a
\* query may raise, and the operator may send SIGTERM.
NextSummary ==
    \/ Start(FirstProc)
    \/ Step(FirstProc, {FALSE}, ConcDns, MaxSummaryPolls)

SpecSummary == InitConc /\ [][NextSummary]_vars

\* ---------------------------------------------- the resolver on its own

\* The system at rest, while the resolver or a command is looked at.
IdleSys == InitSys /\ chain = <<>> /\ conf_wl = <<>>

InitResolve ==
    /\ IdleSys /\ IdleCmd /\ IdleDel
    /\ r_outs \in SeqsUpTo(DnsOutcomes, MaxDomains)
    /\ r_out = NoOut

\* iplist() is called on the domains whose queries do r_outs.
CallIplist ==
    /\ r_out = NoOut
    /\ \E order \in IplistOrders(r_outs) : r_out' = iplist(r_outs, order)
    /\ UNCHANGED <<sysVars, cmdVars, delVars, r_outs>>

SpecResolve == InitResolve /\ [][CallIplist]_vars

\* The addresses of the domains whose query returned an answer.
Resolved(outs) ==
    UNION {Range(outs[k].ans) : k \in 1..Len(outs)}

Called == r_out # NoOut

\* ------------------------------------------- run_ipset_cmd on its own

InitCmd ==
    /\ IdleSys /\ IdleRes /\ IdleDel
    /\ c_p \in CmdResults
    /\ c_cmd = "none"
    /\ c_out = NoCmdOut

\* One of the four kernel-set commands is run and hands back c_p.
RunCreate ==
    /\ c_cmd = "none"
    /\ c_cmd' = "create" /\ c_out' = create_ipset(c_p)
    /\ UNCHANGED <<sysVars, resVars, delVars, c_p>>

RunDestroy ==
    /\ c_cmd = "none"
    /\ c_cmd' = "destroy" /\ c_out' = destroy_ipset(c_p)
    /\ UNCHANGED <<sysVars, resVars, delVars, c_p>>

RunFlush ==
    /\ c_cmd = "none"
    /\ c_cmd' = "flush" /\ c_out' = flush_ipset(c_p)
    /\ UNCHANGED <<sysVars, resVars, delVars, c_p>>

RunAdd ==
    /\ c_cmd = "none"
    /\ c_cmd' = "add" /\ c_out' = add_ipset(c_p)
    /\ UNCHANGED <<sysVars, resVars, delVars, c_p>>

NextCmd == RunCreate \/ RunDestroy \/ RunFlush \/ RunAdd

SpecCmd == InitCmd /\ [][NextCmd]_vars

\* ------------------------------------------------ delete_rule on its own

\* The longest chain delete_rule() is called on.
MaxChain == 3

InitDelete ==
    /\ IdleSys /\ IdleRes /\ IdleCmd
    /\ d_chain \in SeqsUpTo({ForeignRule, WlRule, BlRule}, MaxChain)
    /\ d_out = NoDelOut

\* delete_rule() of the handler with the marker comment is called on d_chain.
CallDelete ==
    /\ d_out = NoDelOut
    /\ \E comment \in {WlComment, BlComment} :
          d_out' = [comment |-> comment, chain |-> delete_rule(d_chain, comment)]
    /\ UNCHANGED <<sysVars, resVars, cmdVars, d_chain>>

SpecDelete == InitDelete /\ [][CallDelete]_vars

\* stderr holds 'set with the same name already exists'.
SaysExists(se) ==
    \E k \in 1..Len(se) : k + Len(ExistsMsg) - 1 <= Len(se)
                          /\ \A n \in 1..Len(ExistsMsg) : se[k + n - 1] = ExistsMsg[n]

\* ================================================================ claims

Marked(ch, comment) == {n \in 1..Len(ch) : ch[n].comment = comment}

\* The teardown of section 4.5, in its order.
FullTeardown ==
    <<Cmd("delete_rule", BlComment, 0), Cmd("destroy", blocklist_ipset_name, 0),
      Cmd("delete_rule", WlComment, 0), Cmd("destroy", whitelist_ipset_name, 0)>>

\* C1: a process that received SIGTERM while RUNNING and left through the
\* handler's sys.exit has performed exactly: delete blocklist rule, destroy
\* blocklist set, delete whitelist rule, destroy whitelist set, each once and
\* in this order.
C1_TeardownOrder ==
    \A i \in Procs :
        (ex[i].done /\ ex[i].by = "exit" /\ sigd[i] = "RUNNING")
            => tdlog[i] = FullTeardown

\* C2: the chain never holds more than one rule with the blocklist marker, nor
\* more than one with the whitelist marker.
C2_OneRulePerMarker ==
    \A c \in {WlComment, BlComment} : Cardinality(Marked(chain, c)) <= 1

\* C3: a process that was sent SIGTERM once the engine had been started has
\* stopped only by performing the teardown and exiting with status 0.
C3_SigtermStops ==
    \A i \in Procs :
        (ex[i].done /\ sigd[i] \in {"INIT", "WHITELIST_READY", "RUNNING"})
            => (ex[i].by = "exit" /\ ex[i].status = 0 /\ tdlog[i] # <<>>)

\* C4: when update_ipset has returned without error, the members of the
\* kernel set are the addresses of the list it was given and iplist_prev is
\* that list (the blocklist call has returned at the sleep, the whitelist call
\* at the creation of the blocklist set).
C4_SyncConverges ==
    \A i \in Procs :
        /\ pc[i] = "sleep" =>
              /\ kset[blocklist_ipset_name].members = Range(call[i].arg)
              /\ prev[i].bl = call[i].arg
        /\ pc[i] = "bl_create" =>
              /\ kset[whitelist_ipset_name].members = Range(call[i].arg)
              /\ prev[i].wl = call[i].arg

\* An update_ipset call of handler w, entered at place at with the list lst,
\* that finds the sorted list equal to iplist_prev: the step that leaves at
\* (unless it is a SIGTERM) returns to after, with the kernel sets and
\* iplist_prev as they were and no command run.
NoOpCall(i, w, lst, at, after) ==
    (pc[i] = at /\ pc'[i] # at /\ sigd'[i] = sigd[i] /\ ListSort(lst) = prev[i][w])
        => (pc'[i] = after /\ kset' = kset /\ prev'[i] = prev[i] /\ call'[i].cmds = <<>>)

\* C5: an update_ipset whose list, sorted, equals iplist_prev runs no
\* kernel-set command and leaves iplist_prev as it is; and a call that has
\* returned leaves iplist_prev equal to its list, so that a second call with
\* the same list is such a call.
C5_NoOpSync ==
    /\ [][\A i \in Procs :
             /\ NoOpCall(i, "bl", call[i].arg, "bl_sync", "sleep")
             /\ NoOpCall(i, "wl", parse_comma_separated(conf_wl), "wl_sync", "bl_create")]_vars
    /\ [](\A i \in Procs : pc[i] = "sleep" => prev[i].bl = ListSort(call[i].arg))

\* C5, its case: a call with the list of the call before it has returned to
\* the sleep without a command, the set holding that list's addresses.
C5_Witness ==
    \E i \in Procs :
        /\ pc[i] = "sleep" /\ call[i].cmds = <<>>
        /\ Len(call[i].arg) = 2 /\ prev[i].bl = call[i].arg
        /\ kset[blocklist_ipset_name].members = Range(call[i].arg)

\* C6: iplist() never raises: it queries every domain and returns the
\* addresses of the domains that resolved.
C6_FailureIsolated ==
    Called => /\ ~r_out.raised
              /\ r_out.queried = Len(r_outs)
              /\ Range(r_out.value) = Resolved(r_outs)

\* C7: what iplist() returns holds each address of the union of the answers
\* once, nothing else, and is in ascending order.
C7_SortedUnion ==
    (Called /\ ~r_out.raised) =>
        /\ Range(r_out.value) = Resolved(r_outs)
        /\ NoDup(r_out.value)
        /\ IsSorted(r_out.value)

\* C7, its case: two domains that share an address, the first answer out of
\* order, and two addresses returned.
C7_Witness ==
    /\ Called /\ ~r_out.raised
    /\ Len(r_outs) = 2 /\ Len(r_out.value) = 2
    /\ ~IsSorted(r_outs[1].ans)
    /\ Range(r_outs[1].ans) \cap Range(r_outs[2].ans) # {}

C9_TeardownErrorsSwallowed ==
    \A i \in Procs :
        (ex[i].done /\ tdlog[i] # <<>>)
            => (ex[i].by = "exit" /\ ex[i].status = 0 /\ Len(tdlog[i]) = 2)

CheckOrder ==
    <<"check_every", "root", "commands", "table_chain", "pidfile", "rule_pos_setting",
      "rule_pos">>

\* Process i has run a kernel-set command or inserted or deleted a rule.
Mutated(i) == oplog[i] # <<>> \/ tdlog[i] # <<>> \/ call[i].cmds # <<>>

\* C10: the checks run are a prefix of the seven in their order; a check that
\* failed is the last one run and the process has ended; and a process that
\* has created, flushed or added to a set or inserted or deleted a rule has
\* passed all seven.
C10_Preflight ==
    \A i \in Procs :
        /\ Len(checks[i]) <= Len(CheckOrder)
        /\ \A k \in 1..Len(checks[i]) :
              /\ checks[i][k].name = CheckOrder[k]
              /\ ~checks[i][k].ok => (k = Len(checks[i]) /\ ex[i].done)
        /\ Mutated(i) =>
              /\ Len(checks[i]) = Len(CheckOrder)
              /\ \A k \in 1..Len(checks[i]) : checks[i][k].ok

\* C10, its case: all seven checks passed and the blocklist rule inserted.
C10_Witness ==
    \E i \in Procs :
        /\ Len(checks[i]) = Len(CheckOrder)
        /\ \E k \in 1..Len(oplog[i]) : oplog[i][k].op = "insert" /\ oplog[i][k].name = BlComment

\* The fatal startup conditions, by the exception each one raises.
FatalConditions ==
    {"ConfigFileNotFound", "TableNotFound", "ChainNotFound", "IPSetError",
     "IncorrectCheckEvery", "IncorrectLogType", "IncorrectLogLevel",
     "IncorrectLogFacility", "LogPathUnset", "IncorrectRulePosition"}

\* C11: a process ended by a fatal startup condition has a non-zero exit
\* status, and a process ended by another of the conditions has another one.
C11_DistinctExitCodes ==
    \A i \in Procs :
        (ex[i].done /\ ex[i].cause \in FatalConditions) =>
            /\ ex[i].status # 0
            /\ \A j \in Procs :
                  (ex[j].done /\ ex[j].cause \in FatalConditions
                      /\ ex[j].cause # ex[i].cause)
                      => ex[j].status # ex[i].status

\* Process i has been ended by the rule-position validation error.
RulePosRejected(i) ==
    ex'[i].done /\ ex'[i].by = "exit" /\ ex'[i].cause = "IncorrectRulePosition"

\* Process i leaves the place l by a step of its own, not by a SIGTERM.
Leaves(i, l) == pc[i] = l /\ pc'[i] # l /\ sigd'[i] = sigd[i]

\* C12: for an integer rule position p and a chain of n rules, the two
\* rule-position checks reject the configuration with the rule-position error
\* when p < 0 or p > n, and let the startup go on when 0 <= p <= n.
C12_RulePosChecked ==
    [][\A i \in Procs :
          /\ (Leaves(i, "chk_rpos_setting") /\ rule_pos'[i].int) =>
                IF rule_pos'[i].n < 0
                THEN RulePosRejected(i) ELSE pc'[i] = "chk_rpos"
          /\ Leaves(i, "chk_rpos") =>
                IF rule_pos[i].n > Len(chain)
                THEN RulePosRejected(i) ELSE pc'[i] = "sethandler"]_vars

\* C12, its case: a position equal to the number of rules of a chain that is
\* not empty has passed both checks.
C12_Witness ==
    \E i \in Procs :
        /\ pc[i] = "sethandler" /\ Len(checks[i]) = Len(CheckOrder)
        /\ rule_pos[i].int /\ rule_pos[i].n = Len(chain) /\ Len(chain) > 0

\* C13: the pidfile check ends a startup only by the abort it makes for a
\* live process of another name (sys.exit(10), no exception): a pidfile that
\* is empty, holds no number or names a process that is gone lets the startup
\* go on to the next check.
C13_PidfileAbortOnlyOnOtherName ==
    \A i \in Procs :
        (Len(checks[i]) >= 5 /\ ~checks[i][5].ok) =>
            (ex[i].by = "exit" /\ ex[i].status = 10 /\ pidfile \in Procs)

\* C14: whenever the chain holds a whitelist rule and a blocklist rule, the
\* whitelist rule is nearer the head of the chain than the blocklist rule.
C14_WhitelistFirst ==
    \A w \in Marked(chain, WlComment) : \A b \in Marked(chain, BlComment) : w < b

\* The place of a startup mutation in the order of BlockManager.run: create
\* whitelist set, insert whitelist rule, flush and add of the whitelist
\* synchronization, create blocklist set, insert blocklist rule.
StageOf(c) ==
    IF c.op = "create" /\ c.name = whitelist_ipset_name THEN 1
    ELSE IF c.op = "insert" /\ c.name = WlComment THEN 2
    ELSE IF c.op \in {"flush", "add"} /\ c.name = whitelist_ipset_name THEN 3
    ELSE IF c.op = "create" /\ c.name = blocklist_ipset_name THEN 4
    ELSE IF c.op = "insert" /\ c.name = BlComment THEN 5
    ELSE 0

\* The places of the poll loop, from the first resolution on.
Polling == {"resolve", "bl_sync", "bl_flush", "bl_add", "sleep"}

\* C15: the startup mutations of a process come in the order create whitelist
\* set, whitelist rule, whitelist synchronization, create blocklist set,
\* blocklist rule; a rule is inserted only after its set was created; the
\* whitelist set is synchronized (flushed) at most once, and exactly once and
\* both sets are created before the first resolution.
C15_StartupOrder ==
    \A i \in Procs :
        LET o == oplog[i]
            At(n) == {k \in 1..Len(o) : StageOf(o[k]) = n}
        IN  /\ \A k \in 1..Len(o) : StageOf(o[k]) \in 1..5
            /\ \A k \in 1..Len(o), m \in 1..Len(o) :
                  k < m => /\ StageOf(o[k]) <= StageOf(o[m])
                           /\ StageOf(o[k]) = StageOf(o[m]) =>
                                 (StageOf(o[k]) = 3 /\ o[m].op = "add")
            /\ o # <<>> => StageOf(o[1]) = 1
            /\ At(5) # {} => At(4) # {}
            /\ At(4) # {} => At(3) # {}
            /\ pc[i] \in Polling =>
                  /\ At(1) # {} /\ At(4) # {}
                  /\ Cardinality({k \in At(3) : o[k].op = "flush"}) = 1
                  /\ hrule[i].wl /\ hrule[i].bl

\* C15, its case: a process at its first resolution that has created both
\* sets, inserted both rules and synchronized the whitelist set.
C15_Witness ==
    \E i \in Procs :
        /\ pc[i] = "resolve" /\ cnt[i] = 1
        /\ \A n \in 1..5 : \E k \in 1..Len(oplog[i]) : StageOf(oplog[i][k]) = n

\* The rules of the chain that do not carry the marker, in their order.
Unmarked(ch, comment) == SelectSeq(ch, LAMBDA r : r.comment # comment)

\* C16: when delete_rule() has returned, the chain holds no rule with the
\* handler's marker, and the rules without it are all there in the order they
\* were in.
C16_DeleteAll ==
    d_out # NoDelOut =>
        /\ Marked(d_out.chain, d_out.comment) = {}
        /\ d_out.chain = Unmarked(d_chain, d_out.comment)

\* C16, its case: a chain with two rules of the marker and a rule without it
\* between them.
C16_Witness ==
    /\ d_out # NoDelOut
    /\ \E k \in 1..Len(d_chain), m \in 1..Len(d_chain), n \in 1..Len(d_chain) :
          /\ k < m /\ m < n
          /\ d_chain[k].comment = d_out.comment /\ d_chain[n].comment = d_out.comment
          /\ d_chain[m].comment # d_out.comment
    /\ Len(d_out.chain) = 1

\* The places of update_ipset where a kernel-set command is run.
SyncPlaces == {"wl_flush", "wl_add", "bl_flush", "bl_add"}

\* Process i runs the flush or the add of an update_ipset call.
SyncCommand(i) ==
    pc[i] \in SyncPlaces /\ sigd'[i] = sigd[i] /\ call'[i].cmds # call[i].cmds

\* The command of that step has failed for all to see: an add that leaves
\* the sets as they were, a flush of a set that does not exist or that leaves
\* members in it.
SyncCommandFailed(i) ==
    LET name == SetOf(IF pc[i] \in {"wl_flush", "wl_add"} THEN "wl" ELSE "bl")
    IN  IF pc[i] \in {"wl_add", "bl_add"}
        THEN kset' = kset
        ELSE ~kset[name].exists \/ kset'[name].members # {}

\* C17: a flush or add of update_ipset that fails raises IPSetError out of
\* the call and of BlockManager.run: the failed command is the last one of the
\* call, iplist_prev stays as it was, and the process, ended, runs no further
\* command, resolution or synchronization.
C17_SyncFailureFatal ==
    [][\A i \in Procs :
          LET raised == ex'[i].done /\ ex'[i].by = "exception" /\ ex'[i].cause = "IPSetError"
          IN  /\ (SyncCommand(i) /\ SyncCommandFailed(i)) => raised
              /\ (SyncCommand(i) /\ raised) =>
                    /\ pc'[i] = "exited"
                    /\ prev'[i] = prev[i]
                    /\ Len(call'[i].cmds) = Len(call[i].cmds) + 1
              /\ (ex[i].done /\ ex'[i].done) =>
                    /\ pc'[i] = "exited"
                    /\ prev'[i] = prev[i] /\ call'[i] = call[i] /\ kset' = kset]_vars

\* C17, its case: in a poll the flush went through and the add of the first
\* of two addresses failed; the second was never added and iplist_prev is not
\* the list of the call.
C17_Witness ==
    \E i \in Procs :
        /\ ex[i].done /\ ex[i].cause = "IPSetError" /\ sigd[i] = ""
        /\ Len(call[i].arg) = 2 /\ Len(call[i].cmds) = 2 /\ Len(call[i].todo) = 1
        /\ call[i].cmds[2].op = "add" /\ call[i].cmds[2].name = blocklist_ipset_name
        /\ prev[i].bl # call[i].arg
        /\ call[i].todo[1] \notin kset[blocklist_ipset_name].members

\* C18: when an instance that was in its poll loop when the pidfile check of
\* a new instance sent it SIGTERM has stopped, and the new instance is in its
\* poll loop, the chain holds the blocklist rule and the blocklist set exists.
C18_TakeoverKeepsBlocking ==
    \A i \in Procs : \A j \in Procs \ {i} :
        (ex[j].done /\ sigd[j] = "RUNNING" /\ pc[i] \in Polling /\ sigd[i] = "")
            => (Marked(chain, BlComment) # {} /\ kset[blocklist_ipset_name].exists)

\* C19: whenever an instance is about to insert a rule, the position it uses
\* is at most the number of rules the chain holds: rule_pos for the whitelist
\* rule, rule_pos + 1 for the blocklist rule.
C19_InsertWithinChain ==
    \A i \in Procs :
        /\ (pc[i] = "wl_insert" /\ ~hrule[i].wl /\ ~ex[i].done)
              => (rule_pos[i].n >= 0 /\ rule_pos[i].n <= Len(chain))
        /\ (pc[i] = "bl_insert" /\ ~hrule[i].bl /\ ~ex[i].done)
              => (rule_pos[i].n + 1 >= 0 /\ rule_pos[i].n + 1 <= Len(chain))

\* C20: every add command an instance has issued names an address that is not
\* the empty string, and an instance whose whitelist_local_ips is empty has
\* issued no add command for the whitelist set and is not about to issue one.
C20_AddsNonEmptyAddress ==
    \A i \in Procs :
        /\ \A k \in 1..Len(oplog[i]) :
              oplog[i][k].op = "add" => oplog[i][k].ip # EmptyStr
        /\ \A k \in 1..Len(call[i].cmds) :
              call[i].cmds[k].op = "add" => call[i].cmds[k].ip # EmptyStr
        /\ (conf_wl = <<>> /\ Alive(i))
              => /\ pc[i] # "wl_add"
                 /\ \A k \in 1..Len(oplog[i]) :
                       ~(oplog[i][k].op = "add" /\ oplog[i][k].name = whitelist_ipset_name)

\* C21: each pass of the poll loop that reaches the test of the counter (its
\* resolve returned) is pass k = polls + 1 of the instance, and it logs the
\* summary exactly when k is a multiple of 10: the summaries logged so far
\* gain k then, and stay as they are in every other pass.
C21_SummaryEveryTenth ==
    [][\A i \in Procs :
          (pc[i] = "resolve" /\ pc'[i] = "bl_sync")
              => /\ polls'[i] = polls[i] + 1
                 /\ polls'[i] >= 1
                 /\ summ'[i] = IF polls'[i] % 10 = 0
                               THEN summ[i] \cup {polls'[i]}
                               ELSE summ[i]
                 /\ summ'[i] = {k \in 1..polls'[i] : k % 10 = 0}]_vars

\* C21 happens: an instance has made 21 passes and logged the summary in
\* passes 10 and 20 and in no other.
C21_Witness ==
    \E i \in Procs :
        /\ pc[i] = "bl_sync" /\ polls[i] = 21
        /\ summ[i] = {10, 20}

====
